---- MODULE Spec2Model ----
(***************************************************************************)
(* Model of pylearn2/datasets/cache.py: DatasetCache.load_dataset run by   *)
(* several operating-system processes over one shared local filesystem.    *)
(* Every process owns one DatasetCache object; the shared state is the     *)
(* local filesystem (directories, cached files, reader-marker directories, *)
(* write-lock directories and the used-bytes counter of statvfs).          *)
(***************************************************************************)
EXTENDS Integers, FiniteSets, Sequences, TLC

(* ---------------------------- bounds ---------------------------------- *)
\* number of processes that share the local filesystem
NumProcs == 2
\* calls of load_dataset made by all processes together
MaxCalls == 2
\* number of ticks of the microsecond clock read by getReadLock
MaxTime == 1

Procs == 1..NumProcs

\* regular files under the remote root
Files == {"a", "b"}
\* arguments of load_dataset: two regular files, a directory, a missing path
Inputs == Files \cup {"d", "m"}
\* an existing regular file that does not lie under the remote root
Outside == {"x"}
\* every regular file load_dataset can be handed
AllFiles == Files \cup Outside
\* size in bytes of each remote regular file (os.path.getsize)
FileSize == [f \in AllFiles |-> CASE f = "a" -> 2 [] f = "b" -> 3 [] OTHER -> 1]
\* total bytes of the local filesystem (statvfs f_blocks * f_frsize)
DiskTotals == {10}
\* used bytes of the local filesystem before the cache writes anything
InitialUsed == {4}
\* values of dataset_local_dir: "" when PYLEARN2_LOCAL_DATA_PATH is unset
LocalDirs == {"", "L"}
\* a value of dataset_local_dir that names a directory which does not exist
\* and which the process has no permission to create
DeniedDirs == {"RO"}
\* the contents a remote file can have
Contents == {"c0", "c1"}

NoProc == 0
NoName == <<"none", "none">>
NoFile == [bytes |-> -1, ver |-> "none"]

VARIABLES
  pc,          \* pc[p]: position of process p in load_dataset / its life
  arg,         \* arg[p]: remote_name of the current (or last) call
  ret,         \* ret[p]: value returned by the last call, NoName while running
  calls,       \* number of load_dataset calls started so far
  localDir,    \* localDir[p]: self.dataset_local_dir
  dirs,        \* local directories that exist ("L" root, "L/s" data folder)
  localFile,   \* localFile[f]: the file at local_name, NoFile when absent
  used,        \* used bytes of the local filesystem
  total,       \* total bytes of the local filesystem
  writeLock,   \* writeLock[f]: holder of the lock dir local_name + ".writelock"
  markers,     \* reader-marker directories <<f, pid, timestamp>> that exist
  registered,  \* registered[p]: lockdirNames p registered with atexit
  now,         \* current value of int(time.time() * 1e6)
  remoteVer,   \* remoteVer[f]: the content of the remote file
  copies,      \* copies[f]: invocations of copy_from_server_to_local for f
  tookLock,    \* tookLock[p]: the current call acquired the write lock
  copied,      \* copied[p]: the current call invoked the copy
  copyFailed,  \* copyFailed[p]: the cp of the current call ended in error
  afterSuccess \* afterSuccess[p]: when the current call began, a call with
               \* the same argument had already returned the local path

vars == <<pc, arg, ret, calls, localDir, dirs, localFile, used, total,
          writeLock, markers, registered, now, remoteVer, copies,
          tookLock, copied, copyFailed, afterSuccess>>

fsVars == <<dirs, localFile, used, total, writeLock, markers>>
histVars == <<tookLock, copied, copyFailed, afterSuccess>>

(* ------------------------- pure helpers ------------------------------- *)
RemoteName(n) == <<"remote", n>>
\* os.path.join(dataset_local_dir, os.path.relpath(remote_name, remote_dir))
LocalName(n) == <<"local", n>>

\* os.path.exists / os.path.isfile on the remote store
RemoteExists(n) == n /= "m"
RemoteIsFile(n) == n \in AllFiles

\* os.path.relpath(remote_name, self.dataset_remote_dir), as path components:
\* a file outside the remote root is reached through ".."
RelPath(n) == IF n \in Outside THEN <<"..", n>> ELSE <<"s", n>>
\* local_name, the join of the local root and RelPath, stays below the root
UnderLocalRoot(n) == RelPath(n)[1] /= ".."
\* local_folder of line 99: os.path.split(local_name)[0]
LocalFolder(n) == IF n \in Outside THEN "L/.." ELSE "L/s"

\* a check_enough_space that admits a file which reaches the ceiling exactly
EnoughSpaceInclusive(usedBytes, need, totalBytes) ==
  (usedBytes + need) * 10 <= totalBytes * 9

\* check_enough_space: (used + need) < total * 0.90, in tenths
EnoughSpace(usedBytes, need, totalBytes) ==
  (usedBytes + need) * 10 < totalBytes * 9

\* os.mkdir(d) succeeds when d is missing
Creatable(d) == d \notin DeniedDirs
\* the folders safe_mkdir walks through; "L/.." itself exists as soon as "L"
\* does
IntermediaryFolders(folder) ==
  CASE folder = "L/s" -> {"L", "L/s"}
    [] folder = "L/.." -> {"L"}
    [] OTHER -> {folder}

\* safe_mkdir: the folder and every missing ancestor are created; an
\* os.mkdir that fails is passed over by the bare except
SafeMkdir(existing, folder) ==
  existing \cup {d \in IntermediaryFolders(folder) : Creatable(d)}

\* a test of the local root against None instead of the empty string
LocalDirIsNone(p) == localDir[p] = "None"

\* line 68: no local directory has been defined
LocalDirDisabled(p) == localDir[p] = ""

\* a test of the argument that leaves out os.path.isfile
RejectedInputExistsOnly(n) == ~RemoteExists(n)

\* lines 74-82: the argument does not exist or is not a regular file
RejectedInput(n) == ~RemoteExists(n) \/ ~RemoteIsFile(n)

FileComplete(f) == localFile[f] /= NoFile /\ localFile[f].bytes = FileSize[f]

(* ------------------------------ Init ---------------------------------- *)
InitWith(localDirs) ==
  /\ pc = [p \in Procs |-> "idle"]
  /\ arg = [p \in Procs |-> "m"]
  /\ ret = [p \in Procs |-> NoName]
  /\ calls = 0
  /\ localDir \in [Procs -> localDirs]
  /\ dirs = {}
  /\ localFile = [f \in AllFiles |-> NoFile]
  /\ used \in InitialUsed
  /\ total \in DiskTotals
  /\ writeLock = [f \in AllFiles |-> NoProc]
  /\ markers = {}
  /\ registered = [p \in Procs |-> {}]
  /\ now = 0
  /\ remoteVer = [f \in AllFiles |-> "c0"]
  /\ copies = [f \in AllFiles |-> 0]
  /\ tookLock = [p \in Procs |-> FALSE]
  /\ copied = [p \in Procs |-> FALSE]
  /\ copyFailed = [p \in Procs |-> FALSE]
  /\ afterSuccess = [p \in Procs |-> FALSE]

\* every local root is unset or can be created
Init == InitWith(LocalDirs)

\* the local root of some process may also be a directory it cannot create
InitDenied == InitWith(LocalDirs \cup DeniedDirs)

(* ----------------------------- actions -------------------------------- *)
\* load_dataset, lines 64-85: entry, the three early returns, and
\* safe_mkdir(self.dataset_local_dir)
Call(p, n) ==
  /\ pc[p] = "idle"
  /\ calls < MaxCalls
  /\ calls' = calls + 1
  /\ arg' = [arg EXCEPT ![p] = n]
  /\ tookLock' = [tookLock EXCEPT ![p] = FALSE]
  /\ copied' = [copied EXCEPT ![p] = FALSE]
  /\ copyFailed' = [copyFailed EXCEPT ![p] = FALSE]
  /\ afterSuccess' = [afterSuccess EXCEPT ![p] =
                        \E q \in Procs : ret[q] = LocalName(n)]
  /\ IF LocalDirDisabled(p) \/ RejectedInput(n)
       THEN /\ ret' = [ret EXCEPT ![p] = RemoteName(n)]
            /\ pc' = pc
            /\ dirs' = dirs
       ELSE /\ ret' = [ret EXCEPT ![p] = NoName]
            /\ pc' = [pc EXCEPT ![p] = "precheck"]
            /\ dirs' = SafeMkdir(dirs, localDir[p])
  /\ UNCHANGED <<localDir, localFile, used, total, writeLock, markers,
                 registered, now, remoteVer, copies>>

\* load_dataset, lines 88-96: the pre-check of the free space; os.statvfs
\* (line 158) raises OSError when the local root does not exist
PreCheck(p) ==
  /\ pc[p] = "precheck"
  /\ IF localDir[p] \notin dirs
       THEN /\ pc' = [pc EXCEPT ![p] = "raised"]
            /\ ret' = ret
       ELSE IF EnoughSpace(used, FileSize[arg[p]], total)
              THEN /\ pc' = [pc EXCEPT ![p] = "mkfolder"]
                   /\ ret' = ret
              ELSE /\ pc' = [pc EXCEPT ![p] = "idle"]
                   /\ ret' = [ret EXCEPT ![p] = RemoteName(arg[p])]
  /\ UNCHANGED <<arg, calls, localDir, fsVars, registered, now, remoteVer,
                 copies, histVars>>

\* load_dataset, lines 99-100: safe_mkdir(local_folder)
MkFolder(p) ==
  /\ pc[p] = "mkfolder"
  /\ dirs' = SafeMkdir(dirs, LocalFolder(arg[p]))
  /\ pc' = [pc EXCEPT ![p] = "getlock"]
  /\ UNCHANGED <<arg, ret, calls, localDir, localFile, used, total, writeLock,
                 markers, registered, now, remoteVer, copies, histVars>>

\* getWriteLock, lines 104 and 218-228: compilelock.get_lock on the
\* directory local_name + ".writelock"; blocks while that directory exists
GetWriteLock(p) ==
  /\ pc[p] = "getlock"
  /\ writeLock[arg[p]] = NoProc
  /\ writeLock' = [writeLock EXCEPT ![arg[p]] = p]
  /\ tookLock' = [tookLock EXCEPT ![p] = TRUE]
  /\ pc' = [pc EXCEPT ![p] = "locked"]
  /\ UNCHANGED <<arg, ret, calls, localDir, dirs, localFile, used, total,
                 markers, registered, now, remoteVer, copies, copied,
                 copyFailed, afterSuccess>>

\* a re-check that returns the remote path without releaseWriteLock
ReCheckKeepsLock(p) ==
  /\ pc[p] = "locked"
  /\ IF localFile[arg[p]] /= NoFile
       THEN /\ pc' = [pc EXCEPT ![p] = "readlock"]
            /\ ret' = ret
       ELSE /\ IF EnoughSpace(used, FileSize[arg[p]], total)
                 THEN /\ pc' = [pc EXCEPT ![p] = "copy"]
                      /\ ret' = ret
                 ELSE /\ ret' = [ret EXCEPT ![p] = RemoteName(arg[p])]
                      /\ pc' = [pc EXCEPT ![p] = "idle"]
  /\ UNCHANGED <<arg, calls, localDir, dirs, localFile, used, total, markers,
                 writeLock, registered, now, remoteVer, copies, histVars>>

\* load_dataset, lines 107-114 and 121-123: under the write lock, skip the
\* copy when the local file exists, else re-check the free space
ReCheck(p) ==
  /\ pc[p] = "locked"
  /\ IF localFile[arg[p]] /= NoFile
       THEN /\ pc' = [pc EXCEPT ![p] = "readlock"]
            /\ UNCHANGED <<ret, writeLock>>
       ELSE /\ IF EnoughSpace(used, FileSize[arg[p]], total)
                 THEN /\ pc' = [pc EXCEPT ![p] = "copy"]
                      /\ UNCHANGED <<ret, writeLock>>
                 ELSE /\ writeLock' = [writeLock EXCEPT ![arg[p]] = NoProc]
                      /\ ret' = [ret EXCEPT ![p] = RemoteName(arg[p])]
                      /\ pc' = [pc EXCEPT ![p] = "idle"]
  /\ UNCHANGED <<arg, calls, localDir, dirs, localFile, used, total, markers,
                 registered, now, remoteVer, copies, histVars>>

\* copy_from_server_to_local, lines 117 and 145-151: cp opens the
\* destination; the file exists at its final name with no byte written yet
CopyBegin(p) ==
  /\ pc[p] = "copy"
  /\ dirs' = SafeMkdir(dirs, LocalFolder(arg[p]))
  /\ localFile' = [localFile EXCEPT ![arg[p]] =
                     [bytes |-> 0, ver |-> remoteVer[arg[p]]]]
  /\ copies' = [copies EXCEPT ![arg[p]] = @ + 1]
  /\ copied' = [copied EXCEPT ![p] = TRUE]
  /\ pc' = [pc EXCEPT ![p] = "copying"]
  /\ UNCHANGED <<arg, ret, calls, localDir, used, total, writeLock, markers,
                 registered, now, remoteVer, tookLock, copyFailed,
                 afterSuccess>>

\* os.system(command), line 151: cp ends with status 0, all bytes written
CopyEnd(p) ==
  /\ pc[p] = "copying"
  /\ localFile' = [localFile EXCEPT ![arg[p]].bytes = FileSize[arg[p]]]
  /\ used' = used + FileSize[arg[p]]
  /\ pc' = [pc EXCEPT ![p] = "readlock"]
  /\ UNCHANGED <<arg, ret, calls, localDir, dirs, total, writeLock, markers,
                 registered, now, remoteVer, copies, histVars>>

\* os.system(command), line 151: cp ends with a nonzero status after k
\* bytes; the status is not read and load_dataset goes on to line 118
CopyFail(p) ==
  /\ pc[p] = "copying"
  /\ \E k \in 0..(FileSize[arg[p]] - 1) :
       /\ localFile' = [localFile EXCEPT ![arg[p]].bytes = k]
       /\ used' = used + k
  /\ copyFailed' = [copyFailed EXCEPT ![p] = TRUE]
  /\ pc' = [pc EXCEPT ![p] = "readlock"]
  /\ UNCHANGED <<arg, ret, calls, localDir, dirs, total, writeLock, markers,
                 registered, now, remoteVer, copies, tookLock, copied,
                 afterSuccess>>

\* a getReadLock step that gives the write lock back before the marker exists
GetReadLockAfterUnlock(p) ==
  /\ pc[p] = "readlock"
  /\ writeLock' = [writeLock EXCEPT ![arg[p]] = NoProc]
  /\ pc' = [pc EXCEPT ![p] = "unlock"]
  /\ UNCHANGED <<arg, ret, calls, localDir, dirs, localFile, used, total,
                 markers, registered, now, remoteVer, copies, histVars>>

\* getReadLock, lines 127 and 202-207: mkdir of the marker directory named
\* by path, pid and timestamp; os.mkdir raises OSError when it exists
GetReadLock(p) ==
  /\ pc[p] = "readlock"
  /\ LET lockdirName == <<arg[p], p, now>> IN
       IF lockdirName \in markers
         THEN /\ pc' = [pc EXCEPT ![p] = "raised"]
              /\ UNCHANGED <<markers, registered>>
         ELSE /\ markers' = markers \cup {lockdirName}
              /\ registered' = [registered EXCEPT ![p] = @ \cup {lockdirName}]
              /\ pc' = [pc EXCEPT ![p] = "unlock"]
  /\ UNCHANGED <<arg, ret, calls, localDir, dirs, localFile, used, total,
                 writeLock, now, remoteVer, copies, histVars>>

\* releaseWriteLock and return local_name, lines 128-130 and 230-234
ReleaseWriteLock(p) ==
  /\ pc[p] = "unlock"
  /\ writeLock' = [writeLock EXCEPT ![arg[p]] = NoProc]
  /\ ret' = [ret EXCEPT ![p] = LocalName(arg[p])]
  /\ pc' = [pc EXCEPT ![p] = "idle"]
  /\ UNCHANGED <<arg, calls, localDir, dirs, localFile, used, total, markers,
                 registered, now, remoteVer, copies, histVars>>

\* a release that removes every marker of the paths the process has read
ReleaseReadLocksByPath(existing, names) ==
  {m \in existing : \A n \in names : m[1] /= n[1]}

\* releaseReadLock, lines 209-216, applied by atexit to every registered name
ReleaseReadLocks(existing, names) == existing \ names

\* normal end of the process: the atexit hooks registered at line 207 run,
\* and the lock module's own exit hook gives back a write lock still held
Exit(p) ==
  /\ pc[p] \in {"idle", "raised"}
  /\ markers' = ReleaseReadLocks(markers, registered[p])
  /\ registered' = [registered EXCEPT ![p] = {}]
  /\ writeLock' = [f \in AllFiles |->
                     IF writeLock[f] = p THEN NoProc ELSE writeLock[f]]
  /\ pc' = [pc EXCEPT ![p] = "exited"]
  /\ UNCHANGED <<arg, ret, calls, localDir, dirs, localFile, used, total, now,
                 remoteVer, copies, histVars>>

\* the hook atexit runs next: hooks run last registered first
CurrentHook(p) ==
  CHOOSE m \in registered[p] : \A m2 \in registered[p] : m2[3] <= m[3]

\* the process ends and atexit starts to run the registered hooks
ExitBegin(p) ==
  /\ pc[p] \in {"idle", "raised"}
  /\ pc' = [pc EXCEPT ![p] = "atexit"]
  /\ UNCHANGED <<arg, ret, calls, localDir, fsVars, registered, now,
                 remoteVer, copies, histVars>>

\* releaseReadLock, line 215: os.path.exists(lockdirName) and
\* os.path.isdir(lockdirName); when false the hook returns
ReleaseTest(p) ==
  /\ pc[p] \in {"atexit", "rmfail"}
  /\ registered[p] /= {}
  /\ IF CurrentHook(p) \in markers
       THEN /\ pc' = [pc EXCEPT ![p] = "rmdir"]
            /\ registered' = registered
       ELSE /\ pc' = [pc EXCEPT ![p] = "atexit"]
            /\ registered' = [registered EXCEPT ![p] = @ \ {CurrentHook(p)}]
  /\ UNCHANGED <<arg, ret, calls, localDir, fsVars, now, remoteVer, copies,
                 histVars>>

\* releaseReadLock, line 216: os.rmdir(lockdirName), which raises OSError
\* when the directory is no longer there; atexit reports the error and goes
\* on with the next hook
ReleaseRmdir(p) ==
  /\ pc[p] = "rmdir"
  /\ IF CurrentHook(p) \in markers
       THEN /\ markers' = markers \ {CurrentHook(p)}
            /\ pc' = [pc EXCEPT ![p] = "atexit"]
       ELSE /\ markers' = markers
            /\ pc' = [pc EXCEPT ![p] = "rmfail"]
  /\ registered' = [registered EXCEPT ![p] = @ \ {CurrentHook(p)}]
  /\ UNCHANGED <<arg, ret, calls, localDir, dirs, localFile, used, total,
                 writeLock, now, remoteVer, copies, histVars>>

\* every hook has run: the lock module's exit hook gives back a write lock
\* still held and the process is gone
ExitDone(p) ==
  /\ pc[p] \in {"atexit", "rmfail"}
  /\ registered[p] = {}
  /\ writeLock' = [f \in AllFiles |->
                     IF writeLock[f] = p THEN NoProc ELSE writeLock[f]]
  /\ pc' = [pc EXCEPT ![p] = "exited"]
  /\ UNCHANGED <<arg, ret, calls, localDir, dirs, localFile, used, total,
                 markers, registered, now, remoteVer, copies, histVars>>

\* another actor on the machine removes a reader-marker directory
Cleanup ==
  /\ \E m \in markers : markers' = markers \ {m}
  /\ UNCHANGED <<pc, arg, ret, calls, localDir, dirs, localFile, used, total,
                 writeLock, registered, now, remoteVer, copies, histVars>>

\* time.time() advances by one microsecond
Tick ==
  /\ now < MaxTime
  /\ now' = now + 1
  /\ UNCHANGED <<pc, arg, ret, calls, localDir, fsVars, registered, remoteVer,
                 copies, histVars>>

\* the remote store rewrites a file while no cp is reading it
RemoteChange(f) ==
  /\ \A p \in Procs : ~(pc[p] = "copying" /\ arg[p] = f)
  /\ \E c \in Contents \ {remoteVer[f]} :
       remoteVer' = [remoteVer EXCEPT ![f] = c]
  /\ UNCHANGED <<pc, arg, ret, calls, localDir, fsVars, registered, now,
                 copies, histVars>>

\* the steps of load_dataset and of its surroundings, the end of a process
\* left out
Steps ==
  \/ \E p \in Procs, n \in Inputs : Call(p, n)
  \/ \E p \in Procs : PreCheck(p)
  \/ \E p \in Procs : MkFolder(p)
  \/ \E p \in Procs : GetWriteLock(p)
  \/ \E p \in Procs : ReCheck(p)
  \/ \E p \in Procs : CopyBegin(p)
  \/ \E p \in Procs : CopyEnd(p)
  \/ \E p \in Procs : GetReadLock(p)
  \/ \E p \in Procs : ReleaseWriteLock(p)
  \/ Tick
  \/ \E f \in Files : RemoteChange(f)

\* a process ends in one step: nothing else touches its markers meanwhile
Next == Steps \/ \E p \in Procs : Exit(p)

\* the program where every cp succeeds
Spec == Init /\ [][Next]_vars

\* the program where a cp may also end in error
NextFault == Next \/ \E p \in Procs : CopyFail(p)

SpecFault == Init /\ [][NextFault]_vars

\* the steps one process takes inside load_dataset once it has been called
InCallStep(p) ==
  \/ PreCheck(p) \/ MkFolder(p) \/ ReCheck(p) \/ CopyBegin(p) \/ CopyEnd(p)
  \/ GetReadLock(p) \/ ReleaseWriteLock(p)

\* the program where every cp succeeds, every process inside load_dataset
\* keeps being scheduled, and the write lock is granted fairly
Fairness ==
  \A p \in Procs : WF_vars(InCallStep(p)) /\ SF_vars(GetWriteLock(p))

SpecLive == Init /\ [][Next]_vars /\ Fairness

\* the program where the exit hooks run one system call at a time and
\* another actor may remove reader markers
NextCleanup ==
  \/ Steps
  \/ \E p \in Procs : ExitBegin(p)
  \/ \E p \in Procs : ReleaseTest(p)
  \/ \E p \in Procs : ReleaseRmdir(p)
  \/ \E p \in Procs : ExitDone(p)
  \/ Cleanup

SpecCleanup == Init /\ [][NextCleanup]_vars

\* the program where a local root may be a directory that cannot be created
SpecDenied == InitDenied /\ [][Next]_vars

\* the program where load_dataset is also handed a regular file that does
\* not lie under the remote root
NextOutside == Next \/ \E p \in Procs, n \in Outside : Call(p, n)

SpecOutside == Init /\ [][NextOutside]_vars

(* ------------------------ derived quantities --------------------------- *)
\* bytes of the local filesystem that the cache itself has written
CacheBytes == localFile["a"].bytes * (IF localFile["a"] = NoFile THEN 0 ELSE 1)
              + localFile["b"].bytes * (IF localFile["b"] = NoFile THEN 0 ELSE 1)
              + localFile["x"].bytes * (IF localFile["x"] = NoFile THEN 0 ELSE 1)
\* used bytes of the local filesystem before the cache wrote anything
BaseUsed == used - CacheBytes
\* p has started a call and its outcome is still recorded
Called(p) == ret[p] /= NoName \/ pc[p] \notin {"idle", "exited"}
\* p is between getWriteLock (line 104) and releaseWriteLock (lines 113, 128)
InsideWriteLock(p) == pc[p] \in {"locked", "copy", "copying", "readlock", "unlock"}
\* reader markers whose name carries the pid of p
MarkersOf(p) == {m \in markers : m[2] = p}
\* a step in which load_dataset returns from lines 68-82
EarlyReturnStep == calls' = calls + 1 /\ pc' = pc
\* a step in which p ends
ExitStep(p) == pc[p] /= "exited" /\ pc'[p] = "exited"

(* ------------------------------ claims --------------------------------- *)

\* C1: when only processes with a configured local root resolve one and the
\* same file f, each once, and the disk had room for f, then f is copied at
\* most once, and every caller that has returned either made the single copy
\* or found f present under the write lock and returned the local path.
C1_ExactlyOneCopy ==
  \A f \in Files :
    ( /\ EnoughSpace(BaseUsed, FileSize[f], total)
      /\ calls = Cardinality({p \in Procs : Called(p)})
      /\ \A p \in Procs : Called(p) => arg[p] = f /\ localDir[p] /= "" )
    => /\ copies[f] <= 1
       /\ \A p \in Procs :
            (Called(p) /\ pc[p] = "idle")
            => /\ copies[f] = 1
               /\ copied[p] \/ (tookLock[p] /\ ret[p] = LocalName(f))

\* C2: whenever a call has returned the local path, the file at that path
\* is completely written.
C2_NoPartialExposure ==
  \A p \in Procs :
    (arg[p] \in Files /\ ret[p] = LocalName(arg[p])) => FileComplete(arg[p])

\* C3: the used bytes of the local filesystem stay below 90% of its total.
C3_CeilingRespected == used * 10 < total * 9

\* C4: a call whose pre-check sees used + size >= 90% of total returns the
\* remote path and leaves the filesystem, the write locks and the copy count
\* unchanged; a call whose pre-check sees less goes on; under the write lock,
\* with the file absent and still enough room, the call copies; a call that
\* copied returns the local path of a complete file, and a call that returns
\* the remote path made no copy.
C4_SpaceDecision ==
  [][ /\ \A p \in Procs :
           (pc[p] = "precheck" /\ pc'[p] /= "precheck")
           => IF (used + FileSize[arg[p]]) * 10 >= total * 9
                THEN /\ pc'[p] = "idle"
                     /\ ret'[p] = RemoteName(arg[p])
                     /\ ~tookLock'[p] /\ ~copied'[p]
                     /\ UNCHANGED <<fsVars, copies, registered>>
                ELSE pc'[p] = "mkfolder" /\ ret'[p] = NoName
      /\ \A p \in Procs :
           ( /\ pc[p] = "locked" /\ pc'[p] /= "locked"
             /\ localFile[arg[p]] = NoFile
             /\ (used + FileSize[arg[p]]) * 10 < total * 9 )
           => pc'[p] = "copy"
      /\ \A p \in Procs :
           (pc[p] = "copy" /\ pc'[p] /= "copy")
           => copies'[arg[p]] = copies[arg[p]] + 1
      /\ \A p \in Procs :
           (pc'[p] = "idle" /\ copied'[p])
           => ret'[p] = LocalName(arg[p]) /\ FileComplete(arg[p])'
      /\ \A p \in Procs :
           (arg'[p] \in Files /\ ret'[p] = RemoteName(arg'[p])) => ~copied'[p]
    ]_vars

\* C4 witness: the only call made so far met the ceiling exactly at its
\* pre-check and returned the remote path without lock, copy or local file
C4_Witness ==
  \E p \in Procs :
    /\ calls = 2 /\ pc[p] = "idle" /\ localDir[p] /= ""
    /\ arg[p] = "b" /\ ret[p] = RemoteName("b") /\ ~tookLock[p]
    /\ \A q \in Procs \ {p} : pc[q] = "idle" /\ Called(q)
    /\ (used + FileSize["b"]) * 10 = total * 9
    /\ localFile["b"] = NoFile /\ FileComplete("a")

\* C5: a call that began after a call with the same argument had returned
\* the local path returns that local path and makes no copy.
C5_IdempotentResolve ==
  \A p \in Procs :
    (afterSuccess[p] /\ localDir[p] /= "" /\ ret[p] /= NoName)
    => ret[p] = LocalName(arg[p]) /\ ~copied[p]

\* C6: at most one process is between getWriteLock and releaseWriteLock.
C6_SystemWideMutex ==
  Cardinality({p \in Procs : InsideWriteLock(p)}) <= 1

\* C7: a process without a local root never gets past the entry of
\* load_dataset, gets its argument back, holds no lock and no marker, and
\* the call that returns at the entry changes nothing on the filesystem.
C7_DisabledPassthrough ==
  [][ /\ EarlyReturnStep => UNCHANGED <<fsVars, registered, copies>>
      /\ \A p \in Procs :
           localDir[p] = ""
           => /\ pc'[p] \in {"idle", "exited"}
              /\ Called(p)' => ret'[p] = RemoteName(arg'[p])
              /\ ~tookLock'[p] /\ ~copied'[p]
              /\ registered'[p] = {} /\ MarkersOf(p)' = {}
              /\ \A f \in Files : writeLock'[f] /= p
    ]_vars

\* C7 witness: a process without a local root was handed an existing regular
\* file and returned it, and nothing exists on the local filesystem
C7_Witness ==
  \E p \in Procs :
    /\ localDir[p] = "" /\ arg[p] = "a" /\ ret[p] = RemoteName("a")
    /\ pc[p] = "idle" /\ calls = 1
    /\ dirs = {} /\ markers = {} /\ localFile["a"] = NoFile

\* C8: a call with a missing path or a directory returns its argument at
\* the entry: the process is never inside load_dataset with such an argument,
\* took no write lock, made no copy, and the step of the call changes no
\* directory, file, lock or marker.
C8_RejectedInput ==
  [][ /\ (calls' = calls + 1 /\ pc' = pc)
         => UNCHANGED <<dirs, localFile, used, writeLock, markers, registered,
                        copies>>
      /\ \A p \in Procs :
           arg'[p] \notin Files
           => /\ pc'[p] \in {"idle", "exited"}
              /\ ret'[p] \in {NoName, RemoteName(arg'[p])}
              /\ (pc[p] = "idle" /\ arg'[p] /= arg[p])
                   => ret'[p] = RemoteName(arg'[p])
              /\ ~tookLock'[p] /\ ~copied'[p]
    ]_vars

\* C8 witness: a process with a local root was handed a directory and got
\* it back, with nothing created on the local filesystem
C8_Witness ==
  \E p \in Procs :
    /\ localDir[p] /= "" /\ arg[p] = "d" /\ ret[p] = RemoteName("d")
    /\ pc[p] = "idle" /\ calls = 1
    /\ dirs = {} /\ markers = {} /\ \A f \in Files : writeLock[f] = NoProc

\* C9: the step in which a process ends removes exactly the markers that
\* carry its pid, which are the ones it registered, and leaves every cached
\* file untouched; no other step removes a marker; a marker of a process
\* that has not ended exists.
C9_ReaderSurvives ==
  [][ /\ \A p \in Procs :
           ExitStep(p)
           => /\ MarkersOf(p) = registered[p]
              /\ markers' = markers \ MarkersOf(p)
              /\ MarkersOf(p)' = {}
              /\ localFile' = localFile
      /\ (\A p \in Procs : ~ExitStep(p)) => markers \subseteq markers'
      /\ \A p \in Procs :
           pc'[p] /= "exited" => registered'[p] \subseteq markers'
    ]_vars

\* C9 witness: A cached the file and ended, B resolved the same file before
\* A ended and still has its marker, and the cached file is complete
C9_Witness ==
  \E A \in Procs, B \in Procs :
    /\ A /= B /\ pc[A] = "exited" /\ ret[A] = LocalName("a")
    /\ copies["a"] = 1 /\ MarkersOf(A) = {}
    /\ pc[B] = "idle" /\ ret[B] = LocalName("a") /\ ~copied[B]
    /\ MarkersOf(B) /= {} /\ FileComplete("a")

\* C10: a call whose cp ended in error does not return the local path.
C10_CopyErrorFatal ==
  \A p \in Procs : copyFailed[p] => ret[p] /= LocalName(arg[p])

\* C11: no call of getReadLock finds its marker name already taken, so the
\* mkdir of line 204 never raises.
C11_MarkerNamesDistinct == \A p \in Procs : pc[p] /= "raised"

\* p has a reader marker for the file f
HasMarker(p, f) == \E m \in markers : m[1] = f /\ m[2] = p

\* C15: a process about to release the write lock on the way to returning
\* the local path still holds the lock and already has its reader marker;
\* a process that has returned the local path has its marker; and whenever
\* the file a live process copied is complete and that process no longer
\* holds the write lock, the process has a reader marker for the file.
C15_MarkerBeforeUnlock ==
  \A p \in Procs :
    /\ pc[p] = "unlock" => writeLock[arg[p]] = p /\ HasMarker(p, arg[p])
    /\ (pc[p] = "idle" /\ arg[p] \in Files /\ ret[p] = LocalName(arg[p]))
         => HasMarker(p, arg[p])
    /\ ( /\ pc[p] /= "exited" /\ copied[p] /\ FileComplete(arg[p])
         /\ writeLock[arg[p]] /= p )
         => HasMarker(p, arg[p])

\* C15 witness: the copier holds its marker while it still holds the write
\* lock of the file it has just copied
C15_Witness ==
  \E p \in Procs :
    /\ pc[p] = "unlock" /\ copied[p] /\ FileComplete(arg[p])
    /\ writeLock[arg[p]] = p /\ HasMarker(p, arg[p])

\* C16: a call that holds the write lock, finds the file absent and sees
\* used + size at or above 90% of total makes no copy, gives the write lock
\* back and returns the remote path in that step; and a process that is not
\* inside load_dataset after a return holds no write lock.
C16_ReCheckUnderLock ==
  [][ /\ \A p \in Procs :
           ( /\ pc[p] = "locked" /\ pc'[p] /= "locked"
             /\ localFile[arg[p]] = NoFile
             /\ (used + FileSize[arg[p]]) * 10 >= total * 9 )
           => /\ pc'[p] = "idle" /\ ret'[p] = RemoteName(arg[p])
              /\ writeLock[arg[p]] = p /\ writeLock'[arg[p]] = NoProc
              /\ ~copied'[p] /\ copies' = copies /\ localFile' = localFile
              /\ markers' = markers
      /\ \A p \in Procs :
           pc'[p] = "idle" => \A f \in Files : writeLock'[f] /= p
    ]_vars

\* C16 witness: a call passed the pre-check, took the write lock, failed the
\* re-check and returned the remote path; the file is absent, the lock free
C16_Witness ==
  \E p \in Procs :
    /\ pc[p] = "idle" /\ tookLock[p] /\ ~copied[p]
    /\ arg[p] \in Files /\ ret[p] = RemoteName(arg[p])
    /\ localFile[arg[p]] = NoFile /\ writeLock[arg[p]] = NoProc
    /\ (used + FileSize[arg[p]]) * 10 >= total * 9

C18_MarkerOnlyForValidFile ==
  \A m \in markers : FileComplete(m[1])

C20_NoLockLeak ==
  \A f \in Files :
    writeLock[f] /= NoProc => InsideWriteLock(writeLock[f])

\* C12: releaseReadLock never raises, leaves the markers alone when its
\* marker is gone, and removes its own marker only when it is there.
C12_ReleaseIdempotent ==
  [][ \A p \in Procs :
        /\ pc'[p] /= "rmfail"
        /\ (pc[p] \in {"atexit", "rmfail", "rmdir"}
              /\ registered'[p] /= registered[p])
           => markers' = markers \ {CurrentHook(p)}
    ]_vars

\* C13: when safe_mkdir(dataset_local_dir) has returned normally, that
\* directory exists.
C13_MkdirReturnsOnlyOnSuccess ==
  \A p \in Procs : pc[p] = "precheck" => localDir[p] \in dirs

\* C14: a call with a regular file outside the remote root returns its
\* argument at the entry, and no file, write lock or marker exists at a local
\* name outside the local root.
C14_InputUnderRemoteRoot ==
  /\ \A p \in Procs :
       (arg[p] \in Outside /\ Called(p))
       => pc[p] \in {"idle", "exited"} /\ ret[p] = RemoteName(arg[p])
  /\ \A f \in AllFiles :
       ~UnderLocalRoot(f)
       => /\ localFile[f] = NoFile
          /\ writeLock[f] = NoProc
          /\ \A m \in markers : m[1] /= f
====
